---- MODULE Spec2Model ----
(***************************************************************************)
(* Model of alab_control/labman/components.py: the InputFile recipe, its   *)
(* JSON form and equality, and the Workflow that batches InputFiles into   *)
(* mixing pots (Workflow.add_input, Workflow.to_json); and of               *)
(* alab_control/cap_dispenser/cap_dispenser.py: CapDispenser.open/close.   *)
(*                                                                         *)
(* Numbers.  A Python float is an IEEE-754 double.  The state keeps, for   *)
(* each float of an InputFile, an exact description of how the source      *)
(* computed it, and every result the source derives from it is the         *)
(* correctly rounded double result:                                        *)
(*   - a powder mass, and a TargetMass of the JSON form, is a whole        *)
(*     number of micrograms m, standing for the double nearest m * 1e-6;   *)
(*   - a volume is a reduced fraction [n, d] of microlitres, standing      *)
(*     for the double nearest n / d (from_json divides by the replicates); *)
(*   - heating_duration is [n, d, computed] in seconds: the argument       *)
(*     given, or ethanol_volume * (90*60/10000);                           *)
(*   - min_transfer_mass is [n, exact, computed]: n is the floor of the    *)
(*     mass in 1/20 microgram, exact says that nothing was cut off, and    *)
(*     computed says that it is the default 0.85 * (...) of __init__.      *)
(* round(x, 5), x / replicates, floor division and the comparisons of      *)
(* __eq__ are decided on integers where the double result is determined    *)
(* by the exact value, and by the binary arithmetic of the number section  *)
(* (FromDecimal, FMul, FDiv, FAdd, Round5) where it is not: at rounding    *)
(* ties and for quotients that agree exactly.                              *)
(* time_added is not modelled: __eq__ drops it and add_input never reads   *)
(* it.                                                                     *)
(***************************************************************************)
EXTENDS Integers, Sequences, FiniteSets, TLC

VARIABLES
    heap,     \* the InputFile objects handed to add_input so far, by identity
    inputs,   \* Workflow.__inputs: sequence of [obj, samples]
    calls,    \* history: the add_input calls made, with how each ended
    pre,      \* history: heap and __inputs as the last call found them
    out,      \* what the last call that changes nothing returned or raised
    threads,  \* per thread: where its add_input call stands, and its locals
    overlapped, \* history: two add_input calls were in progress at once
    is_open,  \* CapDispenser.is_open: per slot, whether it is recorded as open
    cap       \* the open/close call in progress or last made, and history

vars == <<heap, inputs, calls, pre, out, threads, overlapped, is_open, cap>>

\* ------------------------------------------------------------------ bounds

\* number of add_input calls explored
MaxCalls == 3

\* number of add_input calls explored with the recipes of ReuseArgs
MaxReuseCalls == 4

\* number of CapDispenser.open and close calls explored
MaxCapCalls == 3

\* the memory of the process, counted in samples: a sample list of this
\* length fills it, and MemoryError is raised where the list is to grow
\* (sample_list.append, line 307) or to be copied (the list built from it in
\* line 418).  It is more than MAX_CRUCIBLES and the callers explored: a
\* list gets that long only in a loop that does not end by itself.
MemoryLimit == 20

\* ------------------------------------------------------- program constants

MAX_JAR_VOLUME_UL == 22000

MAX_CRUCIBLES == 16

MAX_HEATING_DURATION_S == 14400

MAX_MIXER_DURATION_S == 900

\* the slots of a CapDispenser: is_open = [False] * 4
NumSlots == 4

\* Python's None
None == "None"

\* An optional number: NoneNum for None, Some(v) for the number v.
NoneNum == <<>>

Some(v) == <<v>>

\* --------------------------------------------------------- Python numbers

Abs(i) == IF i < 0 THEN -i ELSE i

Sgn(i) == IF i < 0 THEN -1 ELSE IF i > 0 THEN 1 ELSE 0

RECURSIVE Gcd(_, _)
Gcd(a, b) == IF b = 0 THEN a ELSE Gcd(b, a % b)

\* The number n / d in lowest terms, d # 0.  A volume is held as such a
\* pair: the Python value is the int n when d = 1 and the float n / d (the
\* double nearest to the quotient) otherwise.
Quot(n, d) == LET g == Gcd(Abs(n), Abs(d)) IN [n |-> Sgn(d) * (n \div g), d |-> Abs(d) \div g]

\* The int n.
Whole(n) == [n |-> n, d |-> 1]

\* A number the caller passed: the int v, or the float of the literal.
Given(v) == [n |-> v, d |-> 1, computed |-> FALSE]

\* A float the constructor computed: q is the value the expression has in
\* exact arithmetic, the float itself lies within a few units in the last
\* place of it and is recomputed from the fields where that matters.
Computed(q) == [n |-> q.n, d |-> q.d, computed |-> TRUE]

\* A minimum transfer mass the caller passed, of v micrograms.  The field
\* counts 1/20 microgram.
GivenMass(v) == [n |-> 20 * v, exact |-> TRUE, computed |-> FALSE]

\* The minimum transfer mass the constructor computes (lines 79-86) from
\* the transfer volume and the total of the masses (in micrograms): in
\* exact arithmetic (transfer * 789 + total) * 17/20 micrograms; n is the
\* floor of that in 1/20 microgram and exact tells that nothing was cut
\* off.  The float itself lies within a few units in the last place of the
\* exact value and is recomputed from the fields where that matters.
ComputedMass(transfer, total) ==
    LET k == transfer.n \div transfer.d
        p == (transfer.n % transfer.d) * 789 * 17
    IN  [n        |-> (k * 789 + total) * 17 + (p \div transfer.d),
         exact    |-> p % transfer.d = 0,
         computed |-> TRUE]

\* The nearest integer to n/d (d > 0), a tie going to the even neighbour.
RoundHalfEven(n, d) ==
    LET q == n \div d
        r == n % d
    IN  IF 2 * r < d THEN q
        ELSE IF 2 * r > d THEN q + 1
        ELSE IF q % 2 = 0 THEN q ELSE q + 1

\* ---- naturals of any size: sequences of digits to the base BigBase, the
\* lowest digit first, no zero digit at the top (the doubles of the source
\* have 53 binary digits, more than an integer of the model holds)

BigBase == 32768

Pow2 == <<1, 2, 4, 8, 16, 32, 64, 128, 256, 512, 1024, 2048, 4096, 8192, 16384>>

Pow5 == <<1, 5, 25, 125, 625, 3125, 15625>>

RECURSIVE BFromInt(_)
BFromInt(n) == IF n = 0 THEN <<>> ELSE <<n % BigBase>> \o BFromInt(n \div BigBase)

RECURSIVE BToInt(_)
BToInt(a) == IF a = <<>> THEN 0 ELSE a[1] + BigBase * BToInt(Tail(a))

RECURSIVE BStrip(_)
BStrip(a) == IF a = <<>> THEN a ELSE IF a[Len(a)] = 0 THEN BStrip(SubSeq(a, 1, Len(a) - 1)) ELSE a

RECURSIVE BZeros(_)
BZeros(n) == IF n = 0 THEN <<>> ELSE <<0>> \o BZeros(n - 1)

\* a * k + c, for 0 < k < BigBase
RECURSIVE BMulSmall(_, _, _)
BMulSmall(a, k, c) ==
    IF a = <<>> THEN BFromInt(c)
    ELSE LET t == a[1] * k + c
         IN  <<t % BigBase>> \o BMulSmall(Tail(a), k, t \div BigBase)

RECURSIVE BDivRec(_, _, _, _)
BDivRec(a, k, i, r) ==
    IF i = 0 THEN [q |-> <<>>, r |-> r]
    ELSE LET t    == r * BigBase + a[i]
             rest == BDivRec(a, k, i - 1, t % k)
         IN  [q |-> rest.q \o <<t \div k>>, r |-> rest.r]

BDivOut(x) == [q |-> BStrip(x.q), r |-> x.r]

\* quotient q and remainder r of a by k, for 0 < k < BigBase
BDivSmall(a, k) == BDivOut(BDivRec(a, k, Len(a), 0))

RECURSIVE BAddC(_, _, _)
BAddC(a, b, c) ==
    IF a = <<>> /\ b = <<>> THEN BFromInt(c)
    ELSE LET x == IF a = <<>> THEN 0 ELSE a[1]
             y == IF b = <<>> THEN 0 ELSE b[1]
             t == x + y + c
         IN  <<t % BigBase>>
               \o BAddC(IF a = <<>> THEN a ELSE Tail(a),
                        IF b = <<>> THEN b ELSE Tail(b), t \div BigBase)

BAdd(a, b) == BAddC(a, b, 0)

RECURSIVE BSubC(_, _, _)
BSubC(a, b, c) ==
    IF a = <<>> THEN <<>>
    ELSE LET y == IF b = <<>> THEN 0 ELSE b[1]
             t == a[1] - y - c
         IN  <<t % BigBase>>
               \o BSubC(Tail(a), IF b = <<>> THEN b ELSE Tail(b),
                        IF t < 0 THEN 1 ELSE 0)

\* a - b, for a >= b
BSub(a, b) == BStrip(BSubC(a, b, 0))

RECURSIVE BCmpAt(_, _, _)
BCmpAt(a, b, i) ==
    IF i = 0 THEN 0
    ELSE IF a[i] < b[i] THEN -1
    ELSE IF a[i] > b[i] THEN 1
    ELSE BCmpAt(a, b, i - 1)

\* -1, 0 or 1 as a is below, equal to or above b
BCmp(a, b) ==
    IF Len(a) < Len(b) THEN -1
    ELSE IF Len(a) > Len(b) THEN 1
    ELSE BCmpAt(a, b, Len(a))

RECURSIVE BMul(_, _)
BMul(a, b) ==
    IF a = <<>> \/ b = <<>> THEN <<>>
    ELSE IF b[1] = 0 THEN <<0>> \o BMul(a, Tail(b))
    ELSE BAdd(BMulSmall(a, b[1], 0), <<0>> \o BMul(a, Tail(b)))

RECURSIVE BitsOf(_)
BitsOf(x) == IF x = 0 THEN 0 ELSE 1 + BitsOf(x \div 2)

\* the number of binary digits of a
BBits(a) == IF a = <<>> THEN 0 ELSE 15 * (Len(a) - 1) + BitsOf(a[Len(a)])

\* a * 2^n
BShl(a, n) == IF a = <<>> THEN a ELSE BZeros(n \div 15) \o BMulSmall(a, Pow2[(n % 15) + 1], 0)

BShrOut(hi, a, d) == [q |-> hi.q, lost |-> hi.r # 0 \/ \E i \in 1..d : a[i] # 0]

\* a \div 2^n, and whether a binary digit 1 was dropped
BShr(a, n) ==
    IF n \div 15 >= Len(a) THEN [q |-> <<>>, lost |-> a # <<>>]
    ELSE BShrOut(BDivSmall(SubSeq(a, (n \div 15) + 1, Len(a)), Pow2[(n % 15) + 1]),
                 a, n \div 15)

\* q or q + 1: q is what is left of a natural without its lowest binary
\* digits, half tells that the highest of these was 1 and above that a
\* lower one was
BRoundEven(q, half, above) ==
    IF half /\ (above \/ (q # <<>> /\ q[1] % 2 = 1)) THEN BAdd(q, <<1>>) ELSE q

BRoundUp(q1, sticky) ==
    BRoundEven(BShr(q1.q, 1).q, q1.q # <<>> /\ q1.q[1] % 2 = 1, q1.lost \/ sticky)

\* a / 2^n rounded to the nearest natural, a tie going to the even one; a
\* stands for a value just above it when sticky
BRoundShr(a, n, sticky) == IF n = 0 THEN a ELSE BRoundUp(BShr(a, n - 1), sticky)

RECURSIVE BDivBits(_, _, _, _)

BDivBit(r2, d, q, steps) ==
    IF BCmp(r2, d) >= 0 THEN BDivBits(BSub(r2, d), d, 2 * q + 1, steps - 1)
    ELSE BDivBits(r2, d, 2 * q, steps - 1)

\* quotient q (an integer) and remainder r of r * 2^steps by d, for r < d
\* and steps <= 15
BDivBits(r, d, q, steps) ==
    IF steps = 0 THEN [q |-> q, r |-> r]
    ELSE BDivBit(BMulSmall(r, 2, 0), d, q, steps)

\* k further digits to the base BigBase of a quotient by d: a holds the
\* digit found last and the remainder, q the digits before it
RECURSIVE BDivDigits(_, _, _, _)
BDivDigits(a, d, q, k) ==
    IF k = 0 THEN [q |-> BStrip(<<a.q>> \o q), r |-> a.r]
    ELSE BDivDigits(BDivBits(a.r, d, 0, 15), d, <<a.q>> \o q, k - 1)

\* ---- Python floats: the double s * m * 2^e with s = 1 or -1 and
\* 2^52 <= m < 2^53 is [s, m, e]; FZero is 0.0.  Every operation gives the
\* double nearest to the exact result, a tie going to the even m (IEEE 754
\* round-to-nearest, what the float operations of the source do).

FZero == [s |-> 0, m |-> <<>>, e |-> 0]

\* [s, m, e] for an m that the rounding may have raised to 2^53
FNormal(s, m, e) ==
    IF BBits(m) = 54 THEN [s |-> s, m |-> BShr(m, 1).q, e |-> e + 1]
    ELSE [s |-> s, m |-> m, e |-> e]

FRoundBits(s, n, e, sticky, bl) ==
    IF bl = 0 THEN FZero
    ELSE IF bl <= 53 THEN [s |-> s, m |-> BShl(n, 53 - bl), e |-> e - (53 - bl)]
    ELSE FNormal(s, BRoundShr(n, bl - 53, sticky), e + (bl - 53))

\* the double nearest to s * n * 2^e, or to a value just above it when
\* sticky (n then has at least 55 binary digits)
FRound(s, n, e, sticky) == FRoundBits(s, n, e, sticky, BBits(n))

\* the double nearest to s * 2^e times a quotient r.q whose remainder is
\* r.r (none when that is zero)
FQuotOut(s, r, e, zero) == FRound(s, r.q, e, r.r # zero)

FQuotShifted(s, n, d, e, k) == FQuotOut(s, BDivSmall(BShl(n, k), d), e - k, 0)

\* the double nearest to s * n / d * 2^e, for 0 < d < BigBase
FQuot(s, n, d, e) ==
    IF n = <<>> THEN FZero
    ELSE FQuotShifted(s, n, d, e, IF BBits(n) >= 70 THEN 0 ELSE 70 - BBits(n))

\* float(i) for an int i
FromInt(i) == FRound(Sgn(i), BFromInt(Abs(i)), 0, FALSE)

\* the float that the literal i * 10^-p denotes, 0 <= p <= 6
FromDecimal(i, p) == FQuot(Sgn(i), BFromInt(Abs(i)), Pow5[p + 1], -p)

\* the float of a volume: float(n) or n / d
FromQuot(q) == FQuot(Sgn(q.n), BFromInt(Abs(q.n)), q.d, 0)

\* x * y
FMul(x, y) == FRound(x.s * y.s, BMul(x.m, y.m), x.e + y.e, FALSE)

\* x / d for an int d # 0
FDivInt(x, d) == FQuot(x.s * Sgn(d), x.m, Abs(d), x.e)

\* x / y for y # 0: the quotient of the two m, which lies between 1/2 and
\* 2, is divided out to 60 binary places
FDiv(x, y) ==
    IF x.s = 0 THEN FZero
    ELSE FQuotOut(x.s * y.s,
                  BDivDigits(IF BCmp(x.m, y.m) >= 0
                             THEN [q |-> 1, r |-> BSub(x.m, y.m)]
                             ELSE [q |-> 0, r |-> x.m], y.m, <<>>, 4),
                  x.e - y.e - 60, <<>>)

\* s * a * 2^e + t * b * 2^e
FAddShifted(s, a, t, b, e) ==
    IF s = t THEN FRound(s, BAdd(a, b), e, FALSE)
    ELSE IF BCmp(a, b) = 0 THEN FZero
    ELSE IF BCmp(a, b) > 0 THEN FRound(s, BSub(a, b), e, FALSE)
    ELSE FRound(t, BSub(b, a), e, FALSE)

FAddAligned(x, y, e) ==
    FAddShifted(x.s, BShl(x.m, x.e - e), y.s, BShl(y.m, y.e - e), e)

\* x + y
FAdd(x, y) ==
    IF x.s = 0 THEN y
    ELSE IF y.s = 0 THEN x
    ELSE FAddAligned(x, y, IF x.e < y.e THEN x.e ELSE y.e)

\* -1, 0 or 1 as x is below, equal to or above y
FCmp(x, y) ==
    IF x.s # y.s THEN (IF x.s < y.s THEN -1 ELSE 1)
    ELSE IF x.s = 0 THEN 0
    ELSE IF x.e # y.e THEN (IF x.e < y.e THEN -x.s ELSE x.s)
    ELSE x.s * BCmp(x.m, y.m)

\* int(x): x cut off towards zero
FTrunc(x) ==
    IF x.s = 0 THEN 0
    ELSE IF x.e >= 0 THEN x.s * BToInt(BShl(x.m, x.e))
    ELSE x.s * BToInt(BShr(x.m, -x.e).q)

\* the floor of -(r.q + a fraction that is not 0 when r.lost)
BNegFloor(r) == IF r.lost THEN -(BToInt(r.q) + 1) ELSE -BToInt(r.q)

\* math.floor(x)
FFloor(x) ==
    IF x.s >= 0 \/ x.e >= 0 THEN FTrunc(x)
    ELSE BNegFloor(BShr(x.m, -x.e))

\* round(x, 5) of a float x, in micrograms (a multiple of 10): the decimal
\* of 5 places nearest to the exact value of x, a tie going to the even
\* one.  x * 10^5 = x.m * 3125 * 2^(x.e + 5).
Round5(x) ==
    IF x.s = 0 THEN 0
    ELSE IF x.e + 5 >= 0
    THEN 10 * x.s * BToInt(BShl(BMulSmall(x.m, 3125, 0), x.e + 5))
    ELSE 10 * x.s * BToInt(BRoundShr(BMulSmall(x.m, 3125, 0), -(x.e + 5), FALSE))

\* ------------------------------------------------------------- InputFile

RECURSIVE SumMass(_)
SumMass(pd) == IF pd = <<>> THEN 0 ELSE Head(pd).mass + SumMass(Tail(pd))

\* Mutant of InputFileInit: a powder of mass 0 is accepted.
InputFileInit_ZeroMassAllowed(args) ==
    LET pd       == args.powder_dispenses
        ethanol  == args.ethanol_volume_ul
        transfer == IF args.transfer_volume_ul \in {NoneNum, Some(0)}
                    THEN ethanol ELSE Whole(args.transfer_volume_ul[1])
        heating  == IF args.heating_duration_s \in {NoneNum, Some(0)}
                    THEN Computed(Quot(ethanol.n * 54, ethanol.d * 100))
                    ELSE Given(args.heating_duration_s[1])
        mtm      == IF args.min_transfer_mass_g # NoneNum
                    THEN GivenMass(args.min_transfer_mass_g[1])
                    ELSE ComputedMass(transfer, SumMass(pd))
    IN  IF \/ Len(pd) = 0
           \/ \E i \in 1..Len(pd) : pd[i].mass < 0
           \/ ethanol.n < 0 \/ ethanol.n > MAX_JAR_VOLUME_UL * ethanol.d
           \/ heating.n < 0 \/ heating.n > MAX_HEATING_DURATION_S * heating.d
           \/ args.mixer_duration_s < 0
           \/ args.mixer_duration_s > MAX_MIXER_DURATION_S
           \/ (~args.allow_replicates /\ args.replicates > 1)
        THEN [ok |-> FALSE]
        ELSE [ok |-> TRUE,
              obj |-> [powder_dispenses  |-> pd,
                       ethanol_volume    |-> ethanol,
                       transfer_volume   |-> transfer,
                       heating_duration  |-> heating,
                       mixer_speed       |-> args.mixer_speed_rpm,
                       mixer_duration    |-> args.mixer_duration_s,
                       min_transfer_mass |-> mtm,
                       allow_replicates  |-> args.allow_replicates,
                       replicates        |-> args.replicates]]

\* InputFile.__init__: args is the record of the constructor's arguments
\* (masses and min_transfer_mass_g in micrograms, ethanol_volume_ul a
\* volume n/d, the other numbers ints, NoneNum for an optional number left
\* out).  The result is [ok |-> FALSE] when the constructor raises
\* ValueError, and otherwise [ok |-> TRUE, obj |-> the fields of the new
\* object].  heating_duration (in seconds) is Given when it was passed and
\* Computed when the constructor derived it, by ethanol_volume *
\* (90 * 60 / 10000); min_transfer_mass likewise, derived by
\* (transfer_volume * (0.789 / 1000) + the masses) * 0.85.
InputFileInit(args) ==
    LET pd       == args.powder_dispenses
        ethanol  == args.ethanol_volume_ul
        transfer == IF args.transfer_volume_ul \in {NoneNum, Some(0)}
                    THEN ethanol ELSE Whole(args.transfer_volume_ul[1])
        heating  == IF args.heating_duration_s \in {NoneNum, Some(0)}
                    THEN Computed(Quot(ethanol.n * 54, ethanol.d * 100))
                    ELSE Given(args.heating_duration_s[1])
        mtm      == IF args.min_transfer_mass_g # NoneNum
                    THEN GivenMass(args.min_transfer_mass_g[1])
                    ELSE ComputedMass(transfer, SumMass(pd))
    IN  IF \/ Len(pd) = 0
           \/ \E i \in 1..Len(pd) : pd[i].mass <= 0
           \/ ethanol.n < 0 \/ ethanol.n > MAX_JAR_VOLUME_UL * ethanol.d
           \/ heating.n < 0 \/ heating.n > MAX_HEATING_DURATION_S * heating.d
           \/ args.mixer_duration_s < 0
           \/ args.mixer_duration_s > MAX_MIXER_DURATION_S
           \/ (~args.allow_replicates /\ args.replicates > 1)
        THEN [ok |-> FALSE]
        ELSE [ok |-> TRUE,
              obj |-> [powder_dispenses  |-> pd,
                       ethanol_volume    |-> ethanol,
                       transfer_volume   |-> transfer,
                       heating_duration  |-> heating,
                       mixer_speed       |-> args.mixer_speed_rpm,
                       mixer_duration    |-> args.mixer_duration_s,
                       min_transfer_mass |-> mtm,
                       allow_replicates  |-> args.allow_replicates,
                       replicates        |-> args.replicates]]

\* self.heating_duration of an object whose heating duration the
\* constructor computed: ethanol_volume * (90 * 60 / 10000), line 58.
HeatingFloat(f) == FMul(FromQuot(f.ethanol_volume), FQuot(1, BFromInt(90 * 60), 10000, 0))

\* self.heating_duration, as a float
HeatingValue(f) ==
    IF f.heating_duration.computed THEN HeatingFloat(f)
    ELSE FromInt(f.heating_duration.n)

\* x with the masses of pd added one after the other (lines 84-85)
RECURSIVE AddMasses(_, _)
AddMasses(x, pd) ==
    IF pd = <<>> THEN x
    ELSE AddMasses(FAdd(x, FromDecimal(Head(pd).mass, 6)), Tail(pd))

\* self.min_transfer_mass of an object whose minimum the constructor
\* computed (lines 79-86).
MinTransferMassFloat(f) ==
    LET ethanol_g_per_ul == FDivInt(FromDecimal(789, 3), 1000)
        start            == FMul(FromQuot(f.transfer_volume), ethanol_g_per_ul)
    IN  FMul(AddMasses(start, f.powder_dispenses), FromDecimal(85, 2))

\* int(self.heating_duration), line 107.  A computed duration is within
\* 1e-11 of its exact value heating_duration.n / heating_duration.d, so
\* int() cuts it to the floor of that unless the exact value is whole; the
\* product of a whole ethanol volume with 90 * 60 / 10000 (a double above
\* 0.54) is never below a whole exact value.
HeatingDuration(f) ==
    LET hd == f.heating_duration
    IN  IF ~hd.computed THEN hd.n
        ELSE IF hd.n % hd.d # 0 \/ f.ethanol_volume.d = 1 THEN hd.n \div hd.d
        ELSE FTrunc(HeatingFloat(f))

\* round(self.min_transfer_mass, 5), line 110, in micrograms.  The float
\* is within 1e-12 g of the exact value, so the rounding is that of the
\* exact value unless the exact value lies half way between two multiples
\* of 10 micrograms (200 units of 1/20 microgram): the float itself
\* decides then.
MinimumTransferMass(f) ==
    LET m == f.min_transfer_mass
    IN  IF ~(m.exact /\ m.n % 200 = 100) THEN 10 * ((m.n + 100) \div 200)
        ELSE IF m.computed THEN Round5(MinTransferMassFloat(f))
        ELSE Round5(FromDecimal(m.n \div 20, 6))

\* round(mass * self.replicates, 5), line 116, in micrograms, for a mass in
\* micrograms: the rounding of the exact product, unless that lies half way
\* between two multiples of 10.
TargetMass(mass, replicates) ==
    IF (mass * replicates) % 10 # 5 THEN 10 * RoundHalfEven(mass * replicates, 10)
    ELSE Round5(FMul(FromDecimal(mass, 6), FromInt(replicates)))

\* InputFile.to_json, without time_added, when the reads of self.replicates
\* give crucible in line 106, ethanol in line 109 and masses[i] in line 114
\* for powder i (the calls between the reads let another thread change
\* the count).  The quantities are totals over the replicates; masses (in
\* micrograms) are rounded to 5 decimals of a gram after the scaling.
to_json_reads(f, crucible, ethanol, masses) ==
    [CrucibleReplicates    |-> crucible,
     HeatingDuration       |-> HeatingDuration(f),
     EthanolDispenseVolume |->
         (f.ethanol_volume.n \div f.ethanol_volume.d) * ethanol,
     MinimumTransferMass   |-> MinimumTransferMass(f),
     MixerDuration         |-> f.mixer_duration,
     MixerSpeed            |-> f.mixer_speed,
     PowderDispenses       |->
         [i \in 1..Len(f.powder_dispenses) |->
             [PowderName |-> f.powder_dispenses[i].name,
              TargetMass |-> TargetMass(f.powder_dispenses[i].mass, masses[i])]],
     TargetTransferVolume  |->
         IF f.transfer_volume.n >= 0
         THEN f.transfer_volume.n \div f.transfer_volume.d
         ELSE -((-f.transfer_volume.n) \div f.transfer_volume.d)]

\* InputFile.to_json of a recipe that no other thread changes meanwhile.
to_json(f) ==
    to_json_reads(f, f.replicates, f.replicates,
                  [i \in 1..Len(f.powder_dispenses) |-> f.replicates])

\* InputFile.__eq__ divides by CrucibleReplicates: it raises
\* ZeroDivisionError when either side has 0 replicates.
EqRaises(f, g) == f.replicates = 0 \/ g.replicates = 0

\* A total of a micrograms over n replicates divided by n is a float that
\* is exact: the mass per replicate is a whole number of 1/64 g.
ExactPerReplicate(a, n) == n > 0 /\ a % n = 0 /\ (a \div n) % 15625 = 0

\* TargetMass / CrucibleReplicates is the same float on the two sides
\* (lines 215 and 224), for totals of a and b micrograms over n and m
\* replicates.  Quotients that differ in exact arithmetic differ as floats,
\* being more than 1e-9 g apart; quotients that agree in exact arithmetic
\* are the same float when they are made of the same numbers or are both
\* exact, and are divided out otherwise.
SamePerReplicate(a, n, b, m) ==
    IF a = b /\ n = m THEN TRUE
    ELSE IF Quot(a, n) # Quot(b, m) THEN FALSE
    ELSE IF ExactPerReplicate(a, n) /\ ExactPerReplicate(b, m) THEN TRUE
    ELSE FDivInt(FromDecimal(a, 6), n) = FDivInt(FromDecimal(b, 6), m)

\* The comparison of InputFile.__eq__ (lines 209-224) on the JSON forms
\* this and that of the two sides: with the ethanol volume and every
\* TargetMass divided by the form's own CrucibleReplicates, they are the
\* same dictionary (CrucibleReplicates and time_added left out).  The
\* quotients of EthanolDispenseVolume, of whole numbers below 2^31, are
\* the same float exactly when they are the same number.
SameDivided(this, that) ==
    /\ this.HeatingDuration = that.HeatingDuration
    /\ this.EthanolDispenseVolume * that.CrucibleReplicates
         = that.EthanolDispenseVolume * this.CrucibleReplicates
    /\ this.MinimumTransferMass = that.MinimumTransferMass
    /\ this.MixerDuration = that.MixerDuration
    /\ this.MixerSpeed = that.MixerSpeed
    /\ this.TargetTransferVolume = that.TargetTransferVolume
    /\ Len(this.PowderDispenses) = Len(that.PowderDispenses)
    /\ \A i \in 1..Len(this.PowderDispenses) :
          /\ this.PowderDispenses[i].PowderName
               = that.PowderDispenses[i].PowderName
          /\ SamePerReplicate(this.PowderDispenses[i].TargetMass,
                              this.CrucibleReplicates,
                              that.PowderDispenses[i].TargetMass,
                              that.CrucibleReplicates)

\* InputFile.__eq__ when it returns (lines 206-224).
InputFileEq(f, g) == SameDivided(to_json(f), to_json(g))

\* The dictionary {v["PowderName"]: v["TargetMass"] for v in pd} of lines
\* 153-155: a name that comes again keeps its place and takes the later
\* mass.
PowderDict(pd) ==
    LET first(i) == \A k \in 1..(i - 1) : pd[k].PowderName # pd[i].PowderName
        last(i)  == CHOOSE k \in i..Len(pd) :
                       /\ pd[k].PowderName = pd[i].PowderName
                       /\ \A m \in (k + 1)..Len(pd) :
                             pd[m].PowderName # pd[i].PowderName
        keys     == SelectSeq([i \in 1..Len(pd) |-> i], first)
    IN  [n \in 1..Len(keys) |->
            [name |-> pd[keys[n]].PowderName,
             mass |-> pd[last(keys[n])].TargetMass]]

\* InputFile.from_json on the JSON form j (time_added aside; TargetMass and
\* MinimumTransferMass in micrograms).  Every TargetMass, a total over the
\* replicates, is handed on as the mass of the powder; the ethanol volume
\* is the quotient EthanolDispenseVolume / CrucibleReplicates, whole or not
\* (the division raises for 0 replicates); allow_replicates is not part of
\* the form and takes its default.
from_json(j) ==
    IF j.CrucibleReplicates = 0 THEN [ok |-> FALSE]
    ELSE InputFileInit(
            [powder_dispenses    |-> PowderDict(j.PowderDispenses),
             heating_duration_s  |-> Some(j.HeatingDuration),
             ethanol_volume_ul   |->
                 Quot(j.EthanolDispenseVolume, j.CrucibleReplicates),
             transfer_volume_ul  |-> Some(j.TargetTransferVolume),
             mixer_speed_rpm     |-> j.MixerSpeed,
             mixer_duration_s    |-> j.MixerDuration,
             min_transfer_mass_g |-> Some(j.MinimumTransferMass),
             replicates          |-> j.CrucibleReplicates,
             allow_replicates    |-> TRUE])

\* InputFile.max_replicates raises ZeroDivisionError for ethanol_volume 0.
MaxReplicatesRaises(f) == f.ethanol_volume.n = 0

\* InputFile.max_replicates = floor(MAX_JAR_VOLUME_UL / ethanol_volume).
\* The float quotient is within 1e-11 of the exact one, so its floor is
\* that of the exact quotient unless the exact quotient is whole; a whole
\* quotient by a whole volume is exact, and one by a volume n / d is
\* divided out.
max_replicates(f) ==
    LET e == f.ethanol_volume
    IN  IF e.d = 1 \/ (MAX_JAR_VOLUME_UL * e.d) % e.n # 0
        THEN (MAX_JAR_VOLUME_UL * e.d) \div e.n
        ELSE FFloor(FDiv(FromInt(MAX_JAR_VOLUME_UL), FromQuot(e)))

\* InputFile.can_accept_another_replicate raises only when it reaches
\* max_replicates, that is when replicates are allowed.
CanAcceptRaises(f) == f.allow_replicates /\ MaxReplicatesRaises(f)

\* Mutant of can_accept_another_replicate: allow_replicates is not read.
can_accept_another_replicate_IgnoresAllow(f) ==
    f.replicates < max_replicates(f)

can_accept_another_replicate(f) ==
    IF ~f.allow_replicates THEN FALSE
    ELSE f.replicates < max_replicates(f)

\* -------------------------------------------------------------- Workflow

\* Workflow.required_crucibles: the sum of the replicates of the entries
\* (an object stored twice counts twice).
RECURSIVE SumReplicates(_, _)
SumReplicates(h, inp) ==
    IF inp = <<>> THEN 0
    ELSE h[Head(inp).obj].replicates + SumReplicates(h, Tail(inp))

required_crucibles(h, inp) == SumReplicates(h, inp)

\* Workflow.samples_are_being_tracked raises MemoryError: line 418 builds,
\* for one entry after the other and until it has found a sample, a list
\* as long as the sample list of the entry, which fails for a list that
\* fills the memory.
TrackedRaises(inp) ==
    \E i \in 1..Len(inp) :
        /\ Len(inp[i].samples) >= MemoryLimit
        /\ \A k \in 1..(i - 1) :
              \A j \in 1..Len(inp[k].samples) : inp[k].samples[j] = None

\* Workflow.samples_are_being_tracked, when it returns
samples_are_being_tracked(inp) ==
    \E i \in 1..Len(inp) :
        \E j \in 1..Len(inp[i].samples) : inp[i].samples[j] # None

\* The while loop of add_input (lines 302-309) on the entry holding object e
\* with sample list sl, for the incoming object o.  One iteration adds a
\* replicate to e (line 306), appends the sample (line 307) and takes a
\* replicate off o (line 308).  When e and o are the same object lines 306
\* and 308 cancel, so the loop condition never changes: the loop goes on
\* appending samples until the list fills the memory, and ends with the
\* MemoryError of line 307, after line 306 and before line 308.
RECURSIVE WhileMerge(_, _, _, _, _)
WhileMerge(h, sl, e, o, sample) ==
    IF CanAcceptRaises(h[e])
    THEN [err |-> "ZeroDivisionError", heap |-> h, samples |-> sl]
    ELSE IF can_accept_another_replicate(h[e]) /\ h[o].replicates > 0
    THEN IF Len(sl) >= MemoryLimit
         THEN [err |-> "MemoryError",
               heap |-> [h EXCEPT ![e].replicates = @ + 1], samples |-> sl]
         ELSE WhileMerge([h EXCEPT ![e].replicates = IF e = o THEN @ ELSE @ + 1,
                                   ![o].replicates = IF e = o THEN @ ELSE @ - 1],
                         Append(sl, sample), e, o, sample)
    ELSE [err |-> None, heap |-> h, samples |-> sl]

RECURSIVE ForEntries(_, _, _, _, _)

\* The for loop of add_input after the while loop on entry idx has ended
\* as w tells: the break of lines 310-311, or the next entry.
AfterWhile(w, inp, idx, o, sample) ==
    IF w.err # None
    THEN [err |-> w.err, heap |-> w.heap,
          inputs |-> [inp EXCEPT ![idx].samples = w.samples]]
    ELSE IF w.heap[o].replicates = 0
    THEN [err |-> None, heap |-> w.heap,
          inputs |-> [inp EXCEPT ![idx].samples = w.samples]]
    ELSE ForEntries(w.heap, [inp EXCEPT ![idx].samples = w.samples],
                    idx + 1, o, sample)

\* The for loop of add_input (lines 298-311) from entry idx on.
ForEntries(h, inp, idx, o, sample) ==
    IF idx > Len(inp) THEN [err |-> None, heap |-> h, inputs |-> inp]
    ELSE IF EqRaises(h[o], h[inp[idx].obj])
    THEN [err |-> "ZeroDivisionError", heap |-> h, inputs |-> inp]
    ELSE IF ~InputFileEq(h[o], h[inp[idx].obj])
    THEN ForEntries(h, inp, idx + 1, o, sample)
    ELSE AfterWhile(WhileMerge(h, inp[idx].samples, inp[idx].obj, o, sample),
                    inp, idx, o, sample)

\* Workflow.required_jars: the number of entries.
required_jars(inp) == Len(inp)

\* InputFile.to_labman_json: the JSON form with the Position added.
to_labman_json(f, position) == [Position |-> position] @@ to_json(f)

\* self.heating_duration of f is at least that of g, as the sort of line
\* 341 compares the keys.  Durations that differ in exact arithmetic differ
\* by 1e-6 s at least and compare as their exact values; of two that agree
\* in exact arithmetic, one computed and one given, the floats are compared.
HeatingGeq(f, g) ==
    LET a == f.heating_duration
        b == g.heating_duration
    IN  IF a.n * b.d # b.n * a.d THEN a.n * b.d > b.n * a.d
        ELSE IF a.computed = b.computed THEN TRUE
        ELSE FCmp(HeatingValue(f), HeatingValue(g)) >= 0

\* x placed in srt, a list sorted from longest to shortest heating_duration,
\* behind every element that heats at least as long.
RECURSIVE InsertByHeating(_, _, _)
InsertByHeating(h, srt, x) ==
    IF srt = <<>> THEN <<x>>
    ELSE IF HeatingGeq(h[Head(srt).obj], h[x.obj])
    THEN <<Head(srt)>> \o InsertByHeating(h, Tail(srt), x)
    ELSE <<x>> \o srt

RECURSIVE InsertAll(_, _, _)
InsertAll(h, inp, srt) ==
    IF inp = <<>> THEN srt
    ELSE InsertAll(h, Tail(inp), InsertByHeating(h, srt, Head(inp)))

\* Mutant of sorted_inputs: the entries are left in insertion order.
sorted_inputs_Unsorted(h, inp) == inp

\* sorted(self.__inputs, key=heating_duration, reverse=True) (lines 341-345):
\* a stable sort, entries of one heating_duration keep their order.
sorted_inputs(h, inp) == InsertAll(h, inp, <<>>)

\* Mutant of sample_mapping: the sample lists are taken in reverse order.
sample_mapping_Reversed(srt, available_positions) ==
    [p \in {available_positions[i] : i \in 1..Len(srt)} |->
        LET last == CHOOSE i \in 1..Len(srt) :
                       /\ available_positions[i] = p
                       /\ \A k \in 1..Len(srt) :
                             available_positions[k] = p => k <= i
        IN  srt[Len(srt) + 1 - last].samples]

\* The dictionary sample_mapping built by the loop of lines 347-353: the
\* key is the position, and a position that comes twice keeps the sample
\* list that was assigned to it last.
sample_mapping(srt, available_positions) ==
    [p \in {available_positions[i] : i \in 1..Len(srt)} |->
        LET last == CHOOSE i \in 1..Len(srt) :
                       /\ available_positions[i] = p
                       /\ \A k \in 1..Len(srt) :
                             available_positions[k] = p => k <= i
        IN  srt[last].samples]

\* The check of lines 329-332.
InsufficientPositions(inp, available_positions) ==
    Len(available_positions) < required_jars(inp)

\* Workflow.name
WorkflowName == "workflow"

\* What Workflow.to_json returns (lines 334-358) for the sorted entries srt.
Document(h, srt, quadrant_index, available_positions, return_sample_tracking) ==
    LET data == [WorkflowName |-> WorkflowName,
                 Quadrant     |-> quadrant_index,
                 InputFile    |->
                     [i \in 1..Len(srt) |->
                         to_labman_json(h[srt[i].obj], available_positions[i])]]
    IN  IF return_sample_tracking
        THEN [ok |-> TRUE, data |-> data,
              sample_mapping |-> sample_mapping(srt, available_positions)]
        ELSE [ok |-> TRUE, data |-> data]

\* Workflow.to_json: [ok |-> FALSE] with the error when it raises, and
\* otherwise what it returns: the document data and, when
\* return_sample_tracking is set, sample_mapping as well.
Workflow_to_json(h, inp, quadrant_index, available_positions, return_sample_tracking) ==
    IF return_sample_tracking /\ TrackedRaises(inp)
    THEN [ok |-> FALSE, error |-> "MemoryError"]
    ELSE IF return_sample_tracking /\ ~samples_are_being_tracked(inp)
    THEN [ok |-> FALSE, error |-> "ValueError"]
    ELSE IF InsufficientPositions(inp, available_positions)
    THEN [ok |-> FALSE, error |-> "ValueError"]
    ELSE Document(h, sorted_inputs(h, inp), quadrant_index,
                  available_positions, return_sample_tracking)

\* Mutant of WorkflowFull: >= instead of >, a full workflow cannot be reached.
WorkflowFull_AtCapacity(h, inp, o) ==
    required_crucibles(h, inp) + h[o].replicates >= MAX_CRUCIBLES

\* The capacity check of add_input (line 260).
WorkflowFull(h, inp, o) ==
    required_crucibles(h, inp) + h[o].replicates > MAX_CRUCIBLES

\* Mutant of SampleTrackingBroken: without the check of lines 275-277 (no
\* sample handed to a tracked workflow).
SampleTrackingBroken_NoTrackedCheck(h, inp, o, sample) ==
    LET broken == IF sample # None
                  THEN h[o].replicates > 1 \/ ~samples_are_being_tracked(inp)
                  ELSE FALSE
    IN  IF required_crucibles(h, inp) = 0 THEN FALSE ELSE broken

\* sampletracking_broken as lines 266-277 of add_input leave it, before the
\* exception for the empty workflow.
sampletracking_broken(h, inp, o, sample) ==
    LET tracking_this_sample == sample # None
    IN  IF tracking_this_sample
        THEN h[o].replicates > 1 \/ ~samples_are_being_tracked(inp)
        ELSE samples_are_being_tracked(inp)

\* The sample tracking check of add_input (lines 266-281).
SampleTrackingBroken(h, inp, o, sample) ==
    IF required_crucibles(h, inp) = 0 THEN FALSE
    ELSE sampletracking_broken(h, inp, o, sample)

\* The merge of add_input (lines 295-311): only for a recipe that allows
\* replicates.
Merge(h, inp, o, sample) ==
    IF h[o].allow_replicates
    THEN ForEntries(h, inp, 1, o, sample)
    ELSE [err |-> None, heap |-> h, inputs |-> inp]

\* The entry appended by add_input (line 316).
NewEntry(o, sample) == [obj |-> o, samples |-> <<sample>>]

\* Mutant of add_input: the sample tracking check is made after the merge.
add_input_TrackingAfterMerge(h, inp, o, sample) ==
    IF WorkflowFull(h, inp, o)
    THEN [result |-> "WorkflowFullError", heap |-> h, inputs |-> inp]
    ELSE IF TrackedRaises(inp)
    THEN [result |-> "MemoryError", heap |-> h, inputs |-> inp]
    ELSE LET m == Merge(h, inp, o, sample)
         IN  IF m.err # None
             THEN [result |-> m.err, heap |-> m.heap, inputs |-> m.inputs]
             ELSE IF SampleTrackingBroken(h, inp, o, sample)
             THEN [result |-> "SampleTrackingError", heap |-> m.heap,
                   inputs |-> m.inputs]
             ELSE IF m.heap[o].replicates > 0
             THEN [result |-> "ok", heap |-> m.heap,
                   inputs |-> Append(m.inputs, NewEntry(o, sample))]
             ELSE [result |-> "ok", heap |-> m.heap, inputs |-> m.inputs]

\* The end of add_input (lines 313-316) after the merge m: a new entry for
\* the replicates that are left.
AppendRest(m, o, sample) ==
    IF m.err # None
    THEN [result |-> m.err, heap |-> m.heap, inputs |-> m.inputs]
    ELSE IF m.heap[o].replicates > 0
    THEN [result |-> "ok", heap |-> m.heap,
          inputs |-> Append(m.inputs, NewEntry(o, sample))]
    ELSE [result |-> "ok", heap |-> m.heap, inputs |-> m.inputs]

\* The part of add_input that changes the workflow (lines 295-316): the
\* merge, and the new entry for the replicates that are left.
MergeAndStore(h, inp, o, sample) == AppendRest(Merge(h, inp, o, sample), o, sample)

\* Workflow.add_input(inputfile = object o, sample) on heap h and entries
\* inp: how the call ends and the heap and entries it leaves.  Line 272 or
\* line 275 reads samples_are_being_tracked in every call.
add_input(h, inp, o, sample) ==
    IF WorkflowFull(h, inp, o)
    THEN [result |-> "WorkflowFullError", heap |-> h, inputs |-> inp]
    ELSE IF TrackedRaises(inp)
    THEN [result |-> "MemoryError", heap |-> h, inputs |-> inp]
    ELSE IF SampleTrackingBroken(h, inp, o, sample)
    THEN [result |-> "SampleTrackingError", heap |-> h, inputs |-> inp]
    ELSE MergeAndStore(h, inp, o, sample)

\* ----------------------------------------------------------- CapDispenser
\* (cap_dispenser/cap_dispenser.py)

\* CapDispenserState
RUNNING == "RUNNING"

STOPPED == "STOPPED"

\* How a get_state() ends: with the state the device reports, or with the
\* exception of a request that failed.
Answers == {RUNNING, STOPPED, "Exception"}

\* Mutant of open_refused: an open slot is opened again.
open_refused_Never(io, n) == FALSE

\* open, line 47: the slot is recorded as open.
open_refused(io, n) == io[n]

\* close, line 64: the slot is recorded as closed.
close_refused(io, n) == ~io[n]

\* open(n) and close(n) after the first get_state() (lines 45-50 and
\* 62-67): answer is how get_state() ended and refused the check of
\* is_open made after it.  result None: the command is requested.
StartCall(answer, refused) ==
    IF answer = "Exception"
    THEN [result |-> "Exception", sent |-> FALSE]
    ELSE IF answer = RUNNING
    THEN [result |-> "RuntimeError", sent |-> FALSE]
    ELSE IF refused
    THEN [result |-> "RuntimeError", sent |-> FALSE]
    ELSE [result |-> None, sent |-> TRUE]

\* ---------------------------------------------------------------- inputs

Samples == {"S1", "S2"}

SampleArgs == Samples \cup {None}

\* One powder, 0.5 g: every multiple has at most 5 decimals.
PowderHalfGram == <<[name |-> "A", mass |-> 500000]>>

\* One powder, 0.123456 g: the sixth decimal is rounded away by to_json.
PowderSixDecimals == <<[name |-> "A", mass |-> 123456]>>

\* The constructor's defaults (lines 16-23), for 0.5 g of one powder.
DefaultArgs ==
    [powder_dispenses    |-> PowderHalfGram,
     heating_duration_s  |-> NoneNum,
     ethanol_volume_ul   |-> Whole(10000),
     transfer_volume_ul  |-> NoneNum,
     mixer_speed_rpm     |-> 2000,
     mixer_duration_s    |-> 540,
     min_transfer_mass_g |-> NoneNum,
     replicates          |-> 1,
     allow_replicates    |-> TRUE]

\* The recipe the callers of the model start from: the defaults with 7 mL
\* of ethanol, so that a mixing pot takes 3 replicates.
SevenMlArgs == [DefaultArgs EXCEPT !.ethanol_volume_ul = Whole(7000)]

\* The recipe of 0.123456 g, with 1 or 2 replicates.
SixDecimalsArgs ==
    {[SevenMlArgs EXCEPT !.powder_dispenses = PowderSixDecimals,
                         !.replicates = r] : r \in {1, 2}}

\* The constructor arguments the callers of the model use.
RecipeArgs ==
    {[SevenMlArgs EXCEPT !.replicates = r] : r \in {1, 2, 3, 15}}
    \cup SixDecimalsArgs
    \cup {[SevenMlArgs EXCEPT !.allow_replicates = FALSE]}
    \cup {[SevenMlArgs EXCEPT !.ethanol_volume_ul = Whole(0)]}

\* Recipes of 3 mL of ethanol, of which a mixing pot takes 7 replicates:
\* a full one, a single one and one that fills the single one up.
ReuseArgs ==
    {[DefaultArgs EXCEPT !.ethanol_volume_ul = Whole(3000),
                         !.replicates = r] : r \in {1, 6, 7}}

\* Two powders, 0.5 g of A and 0.25 g of B, listed in the two orders.
PowderAB == <<[name |-> "A", mass |-> 500000], [name |-> "B", mass |-> 250000]>>

PowderBA == <<[name |-> "B", mass |-> 250000], [name |-> "A", mass |-> 500000]>>

\* The recipe of the two powders, in either order of powder_dispenses.
PowderOrderArgs ==
    {[SevenMlArgs EXCEPT !.powder_dispenses = pd] : pd \in {PowderAB, PowderBA}}

\* Recipes of different heating durations, and two recipes of one heating
\* duration.
SerialArgs ==
    {[SevenMlArgs EXCEPT !.heating_duration_s = Some(s)] : s \in {100, 300, 500}}
    \cup {[SevenMlArgs EXCEPT !.heating_duration_s = Some(300),
                              !.powder_dispenses = PowderAB]}

\* The lists of free mixing pot positions handed to Workflow.to_json.
PositionLists ==
    {<<>>, <<1>>, <<1, 2>>, <<2, 1>>, <<1, 1>>, <<3, 1, 2>>, <<2, 2, 2>>,
     <<4, 3, 2, 1>>, <<1, 2, 3, 4, 5>>}

Quadrants == {1, 2}

\* The recipes handed to add_input by the threads.
ConcurrentArgs == {[SevenMlArgs EXCEPT !.replicates = r] : r \in {1, 2, 15}}

\* The slot numbers handed to open and close: the slots, and one number on
\* either side of them.
SlotArgs == 0..(NumSlots + 1)

\* Constructor arguments on both sides of every validity limit.
PowderArgs ==
    {<<>>, PowderHalfGram, PowderAB,
     <<[name |-> "A", mass |-> 0]>>,
     <<[name |-> "A", mass |-> -1000]>>,
     <<[name |-> "A", mass |-> 500000], [name |-> "B", mass |-> 0]>>}

EthanolArgs ==
    {Whole(e) : e \in {-1, 0, 7000, MAX_JAR_VOLUME_UL, MAX_JAR_VOLUME_UL + 1}}

HeatingArgs ==
    {NoneNum} \cup {Some(s) : s \in {-1, 0, 100, MAX_HEATING_DURATION_S,
                                      MAX_HEATING_DURATION_S + 1}}

MixerDurationArgs == {-1, 0, 540, MAX_MIXER_DURATION_S, MAX_MIXER_DURATION_S + 1}

ConstructArgs ==
    {[SevenMlArgs EXCEPT !.powder_dispenses = pd,
                         !.ethanol_volume_ul = e,
                         !.heating_duration_s = hd,
                         !.mixer_duration_s = md,
                         !.replicates = r,
                         !.allow_replicates = a] :
        pd \in PowderArgs, e \in EthanolArgs, hd \in HeatingArgs,
        md \in MixerDurationArgs, r \in {1, 2, 3}, a \in BOOLEAN}

\* ------------------------------------------------------------ the system

\* Nothing returned yet.
NoOut == [op |-> None]

\* The threads that call add_input.
Threads == {1, 2}

\* A thread that is not inside add_input.
Idle ==
    [pc |-> "idle", obj |-> 0, sample |-> None, replicates |-> 0,
     sampletracking_broken |-> FALSE, idx |-> 0,
     crucible |-> 0, ethanol |-> 0, masses |-> <<>>, count |-> 0]

\* The threads that call open and close on one CapDispenser.
Callers == {1, 2}

\* A caller that has made no call yet.
NoCapCall ==
    [pc |-> "idle", op |-> None, n |-> 0, state |-> None, sent |-> FALSE,
     stopped |-> FALSE, result |-> None,
     pre |-> [i \in 1..NumSlots |-> FALSE]]

\* No open or close call made yet: the callers, and as history the caller
\* that began the last call, the successful calls of each slot, the number
\* of calls, and whether a call began while another was in progress.
NoCapCalls ==
    [callers |-> [c \in Callers |-> NoCapCall], last |-> 1,
     done |-> [i \in 1..NumSlots |-> <<>>], ncalls |-> 0,
     overlapped |-> FALSE]

Init ==
    /\ heap = <<>>
    /\ inputs = <<>>
    /\ calls = <<>>
    /\ pre = [heap |-> <<>>, inputs |-> <<>>]
    /\ out = NoOut
    /\ threads = [t \in Threads |-> Idle]
    /\ overlapped = FALSE
    /\ is_open = [i \in 1..NumSlots |-> FALSE]
    /\ cap = NoCapCalls

\* One call add_input(o, sample) on the heap h (the heap, with a new object
\* added when the caller has just constructed one).
Call(h, o, fresh, sample) ==
    \E r \in {add_input(h, inputs, o, sample)} :
        /\ heap' = r.heap
        /\ inputs' = r.inputs
        /\ calls' = Append(calls, [obj |-> o, fresh |-> fresh,
                                   sample |-> sample,
                                   replicates |-> h[o].replicates,
                                   result |-> r.result])
        /\ pre' = [heap |-> h, inputs |-> inputs]
        /\ out' = NoOut
        /\ UNCHANGED <<threads, overlapped, is_open, cap>>

\* add_input with an InputFile that was just constructed from one of argss.
AddInputNew(argss, bound) ==
    /\ Len(calls) < bound
    /\ \E args \in argss, sample \in SampleArgs :
          LET c == InputFileInit(args)
          IN  /\ c.ok
              /\ Call(Append(heap, c.obj), Len(heap) + 1, TRUE, sample)

\* add_input with an InputFile object that was handed to add_input before.
AddInputSame(bound) ==
    /\ Len(calls) < bound
    /\ \E o \in 1..Len(heap), sample \in SampleArgs :
          Call(heap, o, FALSE, sample)

\* InputFile(...) with the arguments args: the object made, or the failure.
\* The caller constructs one recipe.
Construct ==
    /\ out = NoOut
    /\ \E args \in ConstructArgs :
          LET c == InputFileInit(args)
          IN  out' = c @@ [op |-> "InputFile", args |-> args]
    /\ UNCHANGED <<heap, inputs, calls, pre, threads, overlapped, is_open, cap>>

\* InputFile.from_json(r.to_json()) for the recipe r just constructed.
RoundTrip ==
    /\ out.op = "InputFile"
    /\ out.ok
    /\ LET j == to_json(out.obj)
           c == from_json(j)
       IN  out' = c @@ [op |-> "from_json", orig |-> out.obj, json |-> j]
    /\ UNCHANGED <<heap, inputs, calls, pre, threads, overlapped, is_open, cap>>

\* Workflow.to_json on the workflow as it stands.
ToJson ==
    /\ out = NoOut
    /\ \E quadrant_index \in Quadrants, available_positions \in PositionLists,
          return_sample_tracking \in BOOLEAN :
          LET r == Workflow_to_json(heap, inputs, quadrant_index,
                                    available_positions, return_sample_tracking)
          IN  out' = r @@ [op |-> "to_json",
                           quadrant_index |-> quadrant_index,
                           available_positions |-> available_positions,
                           return_sample_tracking |-> return_sample_tracking]
    /\ UNCHANGED <<heap, inputs, calls, pre, threads, overlapped, is_open, cap>>

\* The call of thread t has ended with result.
Return(t, result) ==
    /\ calls' = Append(calls, [obj |-> threads[t].obj, fresh |-> TRUE,
                               sample |-> threads[t].sample,
                               replicates |-> threads[t].replicates,
                               result |-> result])
    /\ threads' = [threads EXCEPT ![t] = Idle]

\* Thread t calls add_input with an InputFile it has just constructed, and
\* makes the capacity check (line 260).  No lock is taken: the other thread
\* may run between any two of the steps of the call.  A step is one read
\* or write of the workflow, with what the thread does before it on its own
\* locals and on its own InputFile.  The interpreter may let the other
\* thread in between any two instructions (CPython up to 3.9), or at calls
\* and at the ends of loop bodies only (CPython 3.10 and later); either way
\* the three properties of the workflow read its lists element by element,
\* and each is one step all the same.  While one thread reads, only the
\* other writes, and what a thread writes undisturbed only grows.
\* required_crucibles sums counts that grow: a sum of counts read at
\* different moments lies between the sum when the read began and the sum
\* when it ended, so that each of the tests of lines 260 and 279 comes out
\* as on one of the two.  samples_are_being_tracked looks for a sample in
\* lists that only grow: it returns False as at the beginning of the read
\* and True as at the moment it finds a sample.
Enter(t, argss, bound) ==
    /\ threads[t].pc = "idle"
    /\ Len(heap) < bound
    /\ \E args \in argss, sample \in SampleArgs :
          LET c == InputFileInit(args)
              h == Append(heap, c.obj)
              o == Len(heap) + 1
          IN  /\ c.ok
              /\ heap' = h
              /\ pre' = [heap |-> h, inputs |-> inputs]
              /\ IF WorkflowFull(h, inputs, o)
                 THEN /\ calls' = Append(calls,
                              [obj |-> o, fresh |-> TRUE, sample |-> sample,
                               replicates |-> h[o].replicates,
                               result |-> "WorkflowFullError"])
                      /\ threads' = threads
                 ELSE /\ calls' = calls
                      /\ threads' = [threads EXCEPT ![t] =
                              [Idle EXCEPT !.pc = "tracking", !.obj = o,
                                           !.sample = sample,
                                           !.replicates = h[o].replicates]]
    /\ overlapped' = (overlapped \/ \E u \in Threads \ {t} :
                                       threads[u].pc # "idle")
    /\ UNCHANGED <<inputs, out, is_open, cap>>

\* Thread t sets its local sampletracking_broken (lines 266-277): one read
\* of samples_are_being_tracked.
CheckTracking(t) ==
    /\ threads[t].pc = "tracking"
    /\ IF TrackedRaises(inputs)
       THEN Return(t, "MemoryError")
       ELSE /\ threads' = [threads EXCEPT
                   ![t].sampletracking_broken =
                       sampletracking_broken(heap, inputs, threads[t].obj,
                                             threads[t].sample),
                   ![t].pc = "empty"]
            /\ calls' = calls
    /\ UNCHANGED <<heap, inputs, pre, out, overlapped, is_open, cap>>

\* Thread t reads required_crucibles for the exception of the empty
\* workflow and raises when its flag is still set (lines 279-281);
\* otherwise it goes on to the loop over the entries, or past it when its
\* recipe allows no replicates (line 296).
CheckEmpty(t) ==
    /\ threads[t].pc = "empty"
    /\ IF required_crucibles(heap, inputs) # 0 /\ threads[t].sampletracking_broken
       THEN Return(t, "SampleTrackingError")
       ELSE /\ threads' = [threads EXCEPT
                   ![t].pc = IF heap[threads[t].obj].allow_replicates
                             THEN "for" ELSE "store",
                   ![t].idx = 1]
            /\ calls' = calls
    /\ UNCHANGED <<heap, inputs, pre, out, overlapped, is_open, cap>>

\* Thread t takes the next entry of the for loop (line 298), if the list
\* has one, and begins the comparison of line 299: __eq__ takes the JSON
\* form of the thread's own recipe and then that of the entry, whose
\* to_json reads the replicates of the entry a first time in line 106.
ForStep(t) ==
    /\ threads[t].pc = "for"
    /\ threads' =
          IF threads[t].idx > Len(inputs)
          THEN [threads EXCEPT ![t].pc = "store"]
          ELSE [threads EXCEPT
                   ![t].pc = "ethanol",
                   ![t].crucible = heap[inputs[threads[t].idx].obj].replicates]
    /\ UNCHANGED <<heap, inputs, calls, pre, out, overlapped, is_open, cap>>

\* to_json of the entry reads its replicates again in line 109, for
\* EthanolDispenseVolume.
ReadEthanol(t) ==
    /\ threads[t].pc = "ethanol"
    /\ threads' = [threads EXCEPT
           ![t].pc = "mass",
           ![t].ethanol = heap[inputs[threads[t].idx].obj].replicates]
    /\ UNCHANGED <<heap, inputs, calls, pre, out, overlapped, is_open, cap>>

\* The comparison of line 299 ends for thread t, this and that being the
\* JSON forms of its recipe and of the entry: the division by
\* CrucibleReplicates raises (lines 214-216), or the thread goes on to the
\* while loop on an equal entry, or to the next entry.
Compared(t, this, that) ==
    IF this.CrucibleReplicates = 0 \/ that.CrucibleReplicates = 0
    THEN Return(t, "ZeroDivisionError")
    ELSE /\ threads' = [threads EXCEPT
                ![t].pc  = IF SameDivided(this, that) THEN "while" ELSE "for",
                ![t].idx = IF SameDivided(this, that) THEN @ ELSE @ + 1,
                ![t].crucible = 0, ![t].ethanol = 0, ![t].masses = <<>>]
         /\ calls' = calls

\* to_json of the entry reads its replicates once more for each powder
\* (line 114); after the last powder __eq__ compares the two forms.
ReadMass(t) ==
    /\ threads[t].pc = "mass"
    /\ \E e \in {inputs[threads[t].idx].obj} :
       \E masses \in {Append(threads[t].masses, heap[e].replicates)} :
          IF Len(masses) < Len(heap[e].powder_dispenses)
          THEN /\ threads' = [threads EXCEPT ![t].masses = masses]
               /\ calls' = calls
          ELSE Compared(t, to_json(heap[threads[t].obj]),
                        to_json_reads(heap[e], threads[t].crucible,
                                      threads[t].ethanol, masses))
    /\ UNCHANGED <<heap, inputs, pre, out, overlapped, is_open, cap>>

\* Thread t evaluates the condition of the while loop (lines 302-305) on
\* the entry idx; when it is false the thread leaves the loop and either
\* breaks (lines 310-311) or goes on to the next entry.
WhileTest(t) ==
    /\ threads[t].pc = "while"
    /\ LET o == threads[t].obj
           e == inputs[threads[t].idx].obj
       IN  IF CanAcceptRaises(heap[e])
           THEN Return(t, "ZeroDivisionError")
           ELSE /\ threads' =
                     IF can_accept_another_replicate(heap[e])
                        /\ heap[o].replicates > 0
                     THEN [threads EXCEPT ![t].pc = "increment"]
                     ELSE IF heap[o].replicates = 0
                     THEN [threads EXCEPT ![t].pc = "store"]
                     ELSE [threads EXCEPT ![t].pc = "for", ![t].idx = @ + 1]
                /\ calls' = calls
    /\ UNCHANGED <<heap, inputs, pre, out, overlapped, is_open, cap>>

\* Thread t begins existing_inputfile.replicates += 1 (line 306) on the
\* entry idx: it reads the count.  The statement is a read, an addition and
\* a write, in instructions of their own; an interpreter that changes
\* threads between any two instructions (CPython up to 3.9) lets the other
\* thread run between the read and the write, one that changes threads at
\* calls and at the ends of loop bodies only (CPython 3.10 and later) does
\* not.
ReadReplicates(t) ==
    /\ threads[t].pc = "increment"
    /\ threads' = [threads EXCEPT
           ![t].pc = "write",
           ![t].count = heap[inputs[threads[t].idx].obj].replicates]
    /\ UNCHANGED <<heap, inputs, calls, pre, out, overlapped, is_open, cap>>

\* Thread t ends line 306: it writes the count it has read, plus 1, to the
\* entry idx, over what another thread may have written meanwhile.
Increment(t) ==
    /\ threads[t].pc = "write"
    /\ heap' = [heap EXCEPT ![inputs[threads[t].idx].obj].replicates =
                                threads[t].count + 1]
    /\ threads' = [threads EXCEPT ![t].pc = "append", ![t].count = 0]
    /\ UNCHANGED <<inputs, calls, pre, out, overlapped, is_open, cap>>

\* Thread t appends its sample to the sample list of the entry idx, unless
\* the list fills the memory, and takes the replicate off its own recipe
\* (lines 307-309).
AppendSample(t) ==
    /\ threads[t].pc = "append"
    /\ IF Len(inputs[threads[t].idx].samples) >= MemoryLimit
       THEN /\ Return(t, "MemoryError")
            /\ UNCHANGED <<heap, inputs>>
       ELSE /\ inputs' = [inputs EXCEPT ![threads[t].idx].samples =
                                          Append(@, threads[t].sample)]
            /\ heap' = [heap EXCEPT ![threads[t].obj].replicates = @ - 1]
            /\ threads' = [threads EXCEPT ![t].pc = "while"]
            /\ calls' = calls
    /\ UNCHANGED <<pre, out, overlapped, is_open, cap>>

\* Thread t appends an entry for the replicates that are left (lines
\* 313-316), and returns.
Store(t) ==
    /\ threads[t].pc = "store"
    /\ inputs' = IF heap[threads[t].obj].replicates > 0
                 THEN Append(inputs, NewEntry(threads[t].obj, threads[t].sample))
                 ELSE inputs
    /\ Return(t, "ok")
    /\ UNCHANGED <<heap, pre, out, overlapped, is_open, cap>>

\* Caller c calls op(n): the range check (lines 43-44 and 60-61) and the
\* request of the first get_state() (lines 45 and 62), which blocks the
\* caller until the device answers; other callers run meanwhile.
CapCall(c, op, n) ==
    /\ cap' = [cap EXCEPT
          !.callers[c] =
              [pc      |-> IF n \in 1..NumSlots THEN "state" ELSE "idle",
               op      |-> op,
               n       |-> n,
               state   |-> None,
               sent    |-> FALSE,
               stopped |-> FALSE,
               result  |-> IF n \in 1..NumSlots THEN None ELSE "ValueError",
               pre     |-> is_open],
          !.last = c,
          !.ncalls = @ + 1,
          !.overlapped = @ \/ \E d \in Callers \ {c} :
                                   cap.callers[d].pc # "idle"]
    /\ UNCHANGED <<heap, inputs, calls, pre, out, threads, overlapped, is_open>>

\* CapDispenser.open(n), lines 43-45.
Open(c, bound) ==
    /\ cap.callers[c].pc = "idle"
    /\ cap.ncalls < bound
    /\ \E n \in SlotArgs : CapCall(c, "open", n)

\* CapDispenser.close(n), lines 60-62.
Close(c, bound) ==
    /\ cap.callers[c].pc = "idle"
    /\ cap.ncalls < bound
    /\ \E n \in SlotArgs : CapCall(c, "close", n)

\* The first get_state() of caller c ends (lines 45 and 62): the caller
\* raises, or reads is_open as it is now (lines 47 and 64) and raises or
\* requests the command (lines 49-50 and 66-67), which blocks it again.
FirstState(c) ==
    /\ cap.callers[c].pc = "state"
    /\ \E answer \in Answers :
       \E r \in {StartCall(answer,
                           IF cap.callers[c].op = "open"
                           THEN open_refused(is_open, cap.callers[c].n)
                           ELSE close_refused(is_open, cap.callers[c].n))} :
          cap' = [cap EXCEPT
              !.callers[c].pc = IF r.result = None THEN "command" ELSE "idle",
              !.callers[c].state = answer,
              !.callers[c].sent = r.sent,
              !.callers[c].result = r.result]
    /\ UNCHANGED <<heap, inputs, calls, pre, out, threads, overlapped, is_open>>

\* The request of the command of caller c ends (lines 50 and 67): it
\* returns, and the caller requests the state again (lines 51 and 68), or
\* it fails.
Commanded(c) ==
    /\ cap.callers[c].pc = "command"
    /\ \E send_ok \in BOOLEAN :
          cap' = [cap EXCEPT
              !.callers[c].pc = IF send_ok THEN "polling" ELSE "idle",
              !.callers[c].result = IF send_ok THEN None ELSE "Exception"]
    /\ UNCHANGED <<heap, inputs, calls, pre, out, threads, overlapped, is_open>>

\* The loop that follows the command (lines 51-54 and 68-71): one
\* get_state() of caller c ends.  RUNNING: sleep and ask again; STOPPED:
\* record the slot as open or closed and return; a failed request ends the
\* call.
Poll(c) ==
    /\ cap.callers[c].pc = "polling"
    /\ \E answer \in Answers :
          IF answer = RUNNING
          THEN /\ cap' = [cap EXCEPT !.callers[c].state = RUNNING]
               /\ is_open' = is_open
          ELSE IF answer = STOPPED
          THEN /\ is_open' = [is_open EXCEPT
                      ![cap.callers[c].n] = (cap.callers[c].op = "open")]
               /\ cap' = [cap EXCEPT
                      !.callers[c].pc = "idle",
                      !.callers[c].result = "ok",
                      !.callers[c].state = STOPPED,
                      !.callers[c].stopped = TRUE,
                      !.done[cap.callers[c].n] = Append(@, cap.callers[c].op)]
          ELSE /\ is_open' = is_open
               /\ cap' = [cap EXCEPT !.callers[c].pc = "idle",
                                     !.callers[c].result = "Exception",
                                     !.callers[c].state = answer]
    /\ UNCHANGED <<heap, inputs, calls, pre, out, threads, overlapped>>

Next == AddInputNew(RecipeArgs, MaxCalls) \/ AddInputSame(MaxCalls)

Spec == Init /\ [][Next]_vars

\* A caller that hands recipes of 3 mL to add_input, new ones and ones it
\* has handed before, one call after the other.
NextReuse == AddInputNew(ReuseArgs, MaxReuseCalls) \/ AddInputSame(MaxReuseCalls)

SpecReuse == Init /\ [][NextReuse]_vars

\* ---------------------------------------------------------------- claims

Called == calls # <<>>

\* The last call made (only where Called).
Last == calls[Len(calls)]

Replicates(i) == heap[inputs[i].obj].replicates

TotalBefore == required_crucibles(pre.heap, pre.inputs)

TotalNow == required_crucibles(heap, inputs)

Rejected == Called /\ Last.result \in {"WorkflowFullError", "SampleTrackingError"}

\* C1: after any sequence of add_input calls, made one at a time on a
\* workflow that starts empty, the replicate counts of the entries sum to
\* at most MAX_CRUCIBLES.
C1_CapacityInvariant == TotalNow <= MAX_CRUCIBLES

\* C2: no entry has more replicates than its own max_replicates, whether it
\* grew by merging or was appended as new (an entry with ethanol_volume 0
\* has no max_replicates and is left out).
C2_EntryWithinMaxReplicates ==
    \A i \in 1..Len(inputs) :
        ~MaxReplicatesRaises(heap[inputs[i].obj])
            => Replicates(i) <= max_replicates(heap[inputs[i].obj])

\* C3: a call rejected with WorkflowFullError or SampleTrackingError leaves
\* the workflow as it was: the same entries in the same order, with the same
\* replicate counts and the same sample lists.
C3_RejectionLeavesWorkflow ==
    Rejected =>
        /\ inputs = pre.inputs
        /\ \A i \in 1..Len(inputs) :
              Replicates(i) = pre.heap[pre.inputs[i].obj].replicates

\* C3 witness: a call was rejected on a workflow that holds a merged entry.
C3_Witness ==
    /\ Rejected
    /\ \E i \in 1..Len(inputs) : Len(inputs[i].samples) >= 2

\* C4: add_input fails with WorkflowFullError exactly when the total of the
\* workflow plus the full replicate count of the incoming recipe, as it is
\* before any merge, exceeds 16; and the total is then what it was.
C4_WorkflowFullExactly ==
    Called =>
        /\ (Last.result = "WorkflowFullError")
              <=> (TotalBefore + Last.replicates > MAX_CRUCIBLES)
        /\ Last.result = "WorkflowFullError" => TotalNow = TotalBefore

\* C4 witness: 15 crucibles held, 2 replicates incoming: rejected, 15 stay.
C4_Witness ==
    /\ Called
    /\ TotalBefore = 15
    /\ Last.replicates = 2
    /\ Last.result = "WorkflowFullError"
    /\ TotalNow = 15

\* C5: for a call that passes the capacity check: on a workflow of zero
\* crucibles it never fails with SampleTrackingError; on a workflow of at
\* least one crucible it fails with SampleTrackingError exactly when (a) a
\* sample is supplied and the recipe has more than 1 replicate, or (b) a
\* sample is supplied and the workflow is untracked, or (c) no sample is
\* supplied and the workflow is tracked.
C5_SampleTrackingErrorExactly ==
    (Called /\ TotalBefore + Last.replicates <= MAX_CRUCIBLES) =>
        LET tracked == \E i \in 1..Len(pre.inputs) :
                          \E j \in 1..Len(pre.inputs[i].samples) :
                              pre.inputs[i].samples[j] # None
            a == Last.sample # None /\ Last.replicates > 1
            b == Last.sample # None /\ ~tracked
            c == Last.sample = None /\ tracked
        IN  (Last.result = "SampleTrackingError")
                <=> (TotalBefore >= 1 /\ (a \/ b \/ c))

\* The calls that succeeded so far.
OkCalls == {k \in 1..Len(calls) : calls[k].result = "ok"}

FirstOk == CHOOSE k \in OkCalls : \A l \in OkCalls : k <= l

\* C6: the tracking mode is fixed by the first successful add_input: in
\* every later state samples_are_being_tracked has a value, true if that
\* call supplied a sample and false if it did not.
C6_TrackingModeFixed ==
    OkCalls # {} =>
        /\ ~TrackedRaises(inputs)
        /\ samples_are_being_tracked(inputs) <=> calls[FirstOk].sample # None

\* Every slot of every sample list is null.
Untracked ==
    \A i \in 1..Len(inputs) :
        \A j \in 1..Len(inputs[i].samples) : inputs[i].samples[j] = None

\* Every entry's sample list holds a non-null sample.
EveryEntryTracked ==
    \A i \in 1..Len(inputs) :
        \E j \in 1..Len(inputs[i].samples) : inputs[i].samples[j] # None

\* C7 as stated: a non-empty workflow is in exactly one of two cases:
\* tracked (every sample list holds a non-null sample, and every recipe
\* added with a sample had exactly 1 replicate when it was added) or
\* untracked (every slot null).
C7_Original ==
    inputs # <<>> =>
        LET tracked ==
                /\ EveryEntryTracked
                /\ \A k \in OkCalls :
                      calls[k].sample # None => calls[k].replicates = 1
        IN  (tracked /\ ~Untracked) \/ (~tracked /\ Untracked)

\* C7 amended: as C7, but the recipes that had exactly 1 replicate when
\* added are those added with a sample after the first successful call; the
\* first recipe of a workflow may carry a sample with any replicate count.
C7_TwoModes ==
    inputs # <<>> =>
        LET tracked ==
                /\ EveryEntryTracked
                /\ \A k \in OkCalls \ {FirstOk} :
                      calls[k].sample # None => calls[k].replicates = 1
        IN  (tracked /\ ~Untracked) \/ (~tracked /\ Untracked)

\* C7 witness: a tracked workflow whose first recipe came with a sample and
\* 15 replicates, and which then took a second sampled recipe.
C7_Witness ==
    /\ Cardinality(OkCalls) >= 2
    /\ calls[FirstOk].sample # None
    /\ calls[FirstOk].replicates = 15
    /\ EveryEntryTracked

\* C8: after successful add_input calls every entry's sample list has as
\* many slots as the entry has replicates.
C8_OneSlotPerReplicate ==
    (\A k \in 1..Len(calls) : calls[k].result = "ok") =>
        \A i \in 1..Len(inputs) : Len(inputs[i].samples) = Replicates(i)

Min(a, b) == IF a <= b THEN a ELSE b

AllFresh == \A k \in 1..Len(calls) : calls[k].fresh

\* The free slots of a stored recipe: max_replicates - replicates, and none
\* for a recipe that takes no replicates.
C9_FreeSlots(e) ==
    IF e.allow_replicates /\ ~MaxReplicatesRaises(e)
       /\ max_replicates(e) > e.replicates
    THEN max_replicates(e) - e.replicates
    ELSE 0

\* What C9 gives to the entries from i on, of rem incoming replicates: an
\* entry equal to the incoming recipe (as it is when add_input is called)
\* receives min(free slots, replicates remaining).
RECURSIVE C9_Expected(_, _)
C9_Expected(i, rem) ==
    IF i > Len(pre.inputs) THEN [received |-> <<>>, rem |-> rem]
    ELSE LET e    == pre.heap[pre.inputs[i].obj]
             got  == IF InputFileEq(pre.heap[Last.obj], e)
                     THEN Min(C9_FreeSlots(e), rem) ELSE 0
             rest == C9_Expected(i + 1, rem - got)
         IN  [received |-> <<got>> \o rest.received, rem |-> rest.rem]

\* C9: the replicates of an accepted recipe that allows replicates go to
\* the existing entries equal to it, in insertion order, each receiving
\* min(free slots, replicates remaining); a new entry is appended only if
\* replicates remain, and carries exactly the remainder.
C9_MergeDistribution ==
    (Called /\ AllFresh /\ Last.result = "ok"
            /\ pre.heap[Last.obj].allow_replicates) =>
        LET x == C9_Expected(1, Last.replicates)
        IN  /\ \A i \in 1..Len(pre.inputs) :
                  Replicates(i)
                    = pre.heap[pre.inputs[i].obj].replicates + x.received[i]
            /\ IF x.rem > 0
               THEN /\ Len(inputs) = Len(pre.inputs) + 1
                    /\ inputs[Len(inputs)].obj = Last.obj
                    /\ heap[Last.obj].replicates = x.rem
               ELSE Len(inputs) = Len(pre.inputs)

\* Two InputFiles with the same fields, replicates aside.
SameRecipe(f, g) == [f EXCEPT !.replicates = 0] = [g EXCEPT !.replicates = 0]

\* C10: k new InputFiles of one recipe that allows replicates, each with
\* replicates = 1 and a sample, k at most max_replicates, leave a single
\* entry of k replicates whose sample list is the k samples in call order.
C10_OnePerReplicate ==
    (/\ Called
     /\ \A k \in 1..Len(calls) :
           /\ calls[k].fresh
           /\ calls[k].replicates = 1
           /\ calls[k].sample # None
     /\ \A i \in 1..Len(heap) : SameRecipe(heap[i], heap[1])
     /\ heap[1].allow_replicates
     /\ ~MaxReplicatesRaises(heap[1])
     /\ Len(calls) <= max_replicates(heap[1])) =>
        /\ Len(inputs) = 1
        /\ Replicates(1) = Len(calls)
        /\ inputs[1].samples = [k \in 1..Len(calls) |-> calls[k].sample]


\* C11: recipe equality ignores the batch size: two InputFiles with the
\* same per-replicate parameters are equal whatever their replicate counts
\* (at least 1), also after a merge has changed the counts.
C11_EqualityIgnoresReplicates ==
    \A i, j \in 1..Len(heap) :
        (/\ SameRecipe(heap[i], heap[j])
         /\ heap[i].replicates >= 1
         /\ heap[j].replicates >= 1) => InputFileEq(heap[i], heap[j])


\* C17: a recipe created with allow_replicates = false keeps replicates = 1:
\* after any sequence of add_input calls every entry whose recipe does not
\* allow replicates has exactly 1 replicate, also when later incoming
\* recipes are equal to it and allow replicates.
C17_NoReplicatesStaysSingle ==
    \A i \in 1..Len(inputs) :
        ~heap[inputs[i].obj].allow_replicates => Replicates(i) = 1

\* C17 witness: an entry that allows no replicates, and an accepted incoming
\* recipe that is equal to it and allows replicates.
C17_Witness ==
    /\ Called
    /\ Last.result = "ok"
    /\ pre.heap[Last.obj].allow_replicates
    /\ \E i \in 1..Len(pre.inputs) :
          /\ ~heap[inputs[i].obj].allow_replicates
          /\ InputFileEq(pre.heap[Last.obj], pre.heap[pre.inputs[i].obj])
          /\ Replicates(i) = 1

\* C18: the replicate count of every recipe is at least 1 at all times:
\* of every entry of the workflow and of every recipe object handed to
\* add_input, before the call and after it returns.
C18_ReplicatesAtLeastOne ==
    /\ \A i \in 1..Len(inputs) : Replicates(i) >= 1
    /\ \A o \in 1..Len(heap) : heap[o].replicates >= 1
    /\ \A k \in 1..Len(calls) : calls[k].replicates >= 1

\* The samples held by the entries inp.
RECURSIVE SumSamples(_)
SumSamples(inp) ==
    IF inp = <<>> THEN 0 ELSE Len(Head(inp).samples) + SumSamples(Tail(inp))

\* C21: every call to add_input ends, returning or raising, after finitely
\* many merge steps, also when the incoming InputFile is the very object
\* that an entry of the workflow already holds: a call adds at most one
\* sample per replicate of the incoming recipe, and does not go on until
\* the memory is used up.
C21_AddInputTerminates ==
    Called => SumSamples(inputs) - SumSamples(pre.inputs) <= Last.replicates

\* C22: for a recipe just accepted by the constructor (ethanol_volume_ul = 0
\* included) add_input succeeds or fails with WorkflowFullError or
\* SampleTrackingError: no other error comes out of comparing recipes or
\* of max_replicates.
C22_OnlyDeclaredErrors ==
    \A k \in 1..Len(calls) :
        calls[k].fresh =>
            calls[k].result \in {"ok", "WorkflowFullError", "SampleTrackingError"}

\* The entry i can take another replicate (max_replicates being defined).
C23_HasFreeSlot(i) ==
    /\ ~CanAcceptRaises(heap[inputs[i].obj])
    /\ can_accept_another_replicate(heap[inputs[i].obj])

\* C23: after add_input calls made with distinct recipe objects, of the
\* entries equal to one another at most one can still accept a replicate,
\* and a recipe that allows replicates is not given a new entry while an
\* equal entry has a free slot.
C23_OneOpenEntryPerRecipe ==
    (AllFresh /\ \A k \in 1..Len(calls) : calls[k].result # "ZeroDivisionError") =>
        /\ \A i, j \in 1..Len(inputs) :
              (/\ i # j
               /\ InputFileEq(heap[inputs[i].obj], heap[inputs[j].obj])
               /\ C23_HasFreeSlot(i)) => ~C23_HasFreeSlot(j)
        /\ (/\ Called
            /\ Last.result = "ok"
            /\ Len(inputs) > Len(pre.inputs)
            /\ heap[Last.obj].allow_replicates) =>
               \A i \in 1..Len(pre.inputs) :
                   InputFileEq(heap[Last.obj], heap[inputs[i].obj])
                       => ~C23_HasFreeSlot(i)

\* The callers that build the two-powder recipe in either order.
NextPowderOrder == AddInputNew(PowderOrderArgs, MaxCalls) \/ AddInputSame(MaxCalls)

SpecPowderOrder == Init /\ [][NextPowderOrder]_vars

\* The powders of a recipe as a set of (name, mass) pairs.
PowderSet(f) == {f.powder_dispenses[i] : i \in 1..Len(f.powder_dispenses)}

\* Two InputFiles that differ at most in the order of powder_dispenses and
\* in replicates.
SameRecipeAnyOrder(f, g) ==
    /\ PowderSet(f) = PowderSet(g)
    /\ Len(f.powder_dispenses) = Len(g.powder_dispenses)
    /\ [f EXCEPT !.replicates = 0, !.powder_dispenses = <<>>]
         = [g EXCEPT !.replicates = 0, !.powder_dispenses = <<>>]

\* C12: recipe equality does not depend on the order in which the powders
\* were listed: two InputFiles with the same set of powder names and masses
\* and the same other parameters are equal.
C12_EqualityIgnoresPowderOrder ==
    \A i, j \in 1..Len(heap) :
        (/\ SameRecipeAnyOrder(heap[i], heap[j])
         /\ heap[i].replicates >= 1
         /\ heap[j].replicates >= 1) => InputFileEq(heap[i], heap[j])


\* A caller that constructs recipes and sends them through JSON and back.
NextInputFile == Construct \/ RoundTrip

SpecInputFile == Init /\ [][NextInputFile]_vars

\* C13: for every valid recipe r with at least 1 replicate,
\* InputFile.from_json(r.to_json()) is made and is equal to r under recipe
\* equality (same per-replicate ethanol volume and powder masses).
C13_RoundTripEqual ==
    (out.op = "from_json" /\ out.orig.replicates >= 1) =>
        /\ out.ok
        /\ InputFileEq(out.obj, out.orig)


\* A caller that builds a workflow and then serialises it.  to_json changes
\* nothing of the workflow, so an add_input after it finds what it finds
\* without it.
BuildForToJson == out = NoOut /\ AddInputNew(SerialArgs, MaxCalls)

\* The caller hands to add_input, once more, a recipe it has handed before.
ResubmitForToJson == out = NoOut /\ AddInputSame(MaxCalls)

NextToJson == BuildForToJson \/ ResubmitForToJson \/ ToJson

SpecToJson == Init /\ [][NextToJson]_vars

ToJsonReturned == out.op = "to_json" /\ out.ok

\* The one-to-one assignments of the entries to the places of the document.
Orders ==
    {pi \in [1..Len(inputs) -> 1..Len(inputs)] :
        \A a, b \in 1..Len(inputs) : a # b => pi[a] # pi[b]}

\* C14: the InputFile list of a document returned by Workflow.to_json
\* holds every entry of the workflow exactly once, ordered from the longest
\* to the shortest heating duration, and the i-th listed entry carries the
\* i-th element of available_positions as its Position.
C14_SortedWithPositions ==
    ToJsonReturned =>
        /\ Len(out.data.InputFile) = Len(inputs)
        /\ \E pi \in Orders :
              /\ \A i \in 1..Len(inputs) :
                    out.data.InputFile[i]
                      = to_labman_json(heap[inputs[pi[i]].obj],
                                       out.available_positions[i])
              /\ \A i, k \in 1..Len(inputs) :
                    i < k => HeatingGeq(heap[inputs[pi[i]].obj],
                                        heap[inputs[pi[k]].obj])
        /\ \A i \in 1..Len(inputs) :
              out.data.InputFile[i].Position = out.available_positions[i]

\* C14 witness: entries added with durations 100, 500, 300 come out as 500,
\* 300, 100 at the positions 3, 1, 2.
C14_Witness ==
    /\ ToJsonReturned
    /\ Len(inputs) = 3
    /\ [i \in 1..3 |-> heap[inputs[i].obj].heating_duration]
          = <<Given(100), Given(500), Given(300)>>
    /\ out.available_positions = <<3, 1, 2>>
    /\ [i \in 1..3 |-> out.data.InputFile[i].HeatingDuration] = <<500, 300, 100>>
    /\ [i \in 1..3 |-> out.data.InputFile[i].Position] = <<3, 1, 2>>


\* The entries of the workflow, in the order pi, are the entries of the
\* document, the mapping holding at each entry's Position its sample list.
MappingFollows(pi) ==
    /\ \A i \in 1..Len(inputs) :
          out.data.InputFile[i]
            = to_labman_json(heap[inputs[pi[i]].obj], out.available_positions[i])
    /\ \A i \in 1..Len(inputs) :
          /\ out.data.InputFile[i].Position \in DOMAIN out.sample_mapping
          /\ out.sample_mapping[out.data.InputFile[i].Position]
               = inputs[pi[i]].samples

OneKeyPerEntry ==
    Cardinality(DOMAIN out.sample_mapping) = Len(out.data.InputFile)

TrackingReturned ==
    /\ ToJsonReturned
    /\ out.return_sample_tracking
    /\ samples_are_being_tracked(inputs)

DistinctPositions ==
    \A a, b \in 1..Len(out.available_positions) :
        a # b => out.available_positions[a] # out.available_positions[b]

\* C15 as stated: for every list available_positions that is long enough,
\* the mapping returned with return_sample_tracking on a tracked workflow
\* has one key per serialized entry and holds, at every entry's Position,
\* that entry's sample list.
C15_Original ==
    TrackingReturned =>
        /\ OneKeyPerEntry
        /\ \E pi \in Orders : MappingFollows(pi)

\* C15 amended: as C15, for every list of pairwise distinct positions that
\* is long enough; a position listed twice is one key of the mapping and
\* keeps only the sample list assigned to it last.
C15_PositionToSamples ==
    (TrackingReturned /\ DistinctPositions) =>
        /\ OneKeyPerEntry
        /\ \E pi \in Orders : MappingFollows(pi)

\* C15 witness: three tracked entries of durations 100, 500, 300 at the
\* positions 3, 1, 2: position 3 maps to the samples of the second entry.
C15_Witness ==
    /\ TrackingReturned
    /\ Len(inputs) = 3
    /\ [i \in 1..3 |-> heap[inputs[i].obj].heating_duration]
          = <<Given(100), Given(500), Given(300)>>
    /\ out.available_positions = <<3, 1, 2>>
    /\ inputs[2].samples # inputs[1].samples
    /\ out.sample_mapping[3] = inputs[2].samples
    /\ out.sample_mapping[2] = inputs[1].samples

\* C16: Workflow.to_json fails, returning no document, exactly when
\* available_positions has fewer elements than the workflow has entries or
\* return_sample_tracking is asked of an untracked (or empty) workflow.
C16_ToJsonFailsExactly ==
    out.op = "to_json" =>
        /\ ~out.ok <=> \/ Len(out.available_positions) < Len(inputs)
                       \/ out.return_sample_tracking /\ Untracked
        /\ "data" \in DOMAIN out <=> out.ok


\* The heating duration of the constructor arguments a, in 1/100 s: the
\* explicit one, or the one derived from the (whole) ethanol volume.
C19_Heating(a) ==
    IF a.heating_duration_s \in {NoneNum, Some(0)}
    THEN a.ethanol_volume_ul.n * 54
    ELSE a.heating_duration_s[1] * 100

\* The constructor arguments a break one of the rules of C19.
C19_Invalid(a) ==
    \/ a.powder_dispenses = <<>>
    \/ \E i \in 1..Len(a.powder_dispenses) : a.powder_dispenses[i].mass <= 0
    \/ a.ethanol_volume_ul.n \notin 0..MAX_JAR_VOLUME_UL
    \/ C19_Heating(a) \notin 0..(MAX_HEATING_DURATION_S * 100)
    \/ a.mixer_duration_s \notin 0..MAX_MIXER_DURATION_S
    \/ (~a.allow_replicates /\ a.replicates > 1)

\* C19: constructing an InputFile fails, and makes no object, when
\* powder_dispenses is empty, a powder mass is not positive,
\* ethanol_volume_ul is outside [0, 22000], the explicit or derived
\* heating_duration_s is outside [0, 14400], mixer_duration_s is outside
\* [0, 900], or allow_replicates is false and replicates > 1.
C19_InvalidRecipeRejected ==
    (out.op = "InputFile" /\ C19_Invalid(out.args)) =>
        /\ ~out.ok
        /\ "obj" \notin DOMAIN out

\* C19 witness: the default recipe with a powder of mass 0 is rejected.
C19_Witness ==
    /\ out.op = "InputFile"
    /\ out.args = [SevenMlArgs EXCEPT
                      !.powder_dispenses = <<[name |-> "A", mass |-> 0]>>]
    /\ ~out.ok


\* Two threads that call add_input on one workflow without a lock.
NextConcurrent ==
    \E t \in Threads :
        \/ Enter(t, ConcurrentArgs, MaxCalls)
        \/ CheckTracking(t)
        \/ CheckEmpty(t)
        \/ ForStep(t)
        \/ ReadEthanol(t)
        \/ ReadMass(t)
        \/ WhileTest(t)
        \/ ReadReplicates(t)
        \/ Increment(t)
        \/ AppendSample(t)
        \/ Store(t)

SpecConcurrent == Init /\ [][NextConcurrent]_vars

\* Every slot of every sample list holds a sample.
AllSlotsSampled ==
    \A i \in 1..Len(inputs) :
        \A j \in 1..Len(inputs[i].samples) : inputs[i].samples[j] # None

\* The workflow is in a single tracking mode.
SingleTrackingMode == Untracked \/ AllSlotsSampled

\* C20: as long as the add_input calls are serialized (no call has begun
\* while another was in progress) the capacity invariant and the single
\* tracking mode hold.
C20_SerializedKeepsInvariants ==
    ~overlapped => (TotalNow <= MAX_CRUCIBLES /\ SingleTrackingMode)

\* The other half of C20: calls that interleave reach a state, all of them
\* returned, in which the workflow holds more than MAX_CRUCIBLES crucibles
\* and both sampled and null slots.
InterleavedBreaksInvariants ==
    /\ overlapped
    /\ \A t \in Threads : threads[t].pc = "idle"
    /\ \A k \in 1..Len(calls) : calls[k].result = "ok"
    /\ TotalNow > MAX_CRUCIBLES
    /\ ~SingleTrackingMode

\* Two callers that open and close the slots of one CapDispenser without a
\* lock.
NextCapDispenser ==
    \E c \in Callers :
        \/ Open(c, MaxCapCalls)
        \/ Close(c, MaxCapCalls)
        \/ FirstState(c)
        \/ Commanded(c)
        \/ Poll(c)

SpecCapDispenser == Init /\ [][NextCapDispenser]_vars

\* The call that began last.
CapLast == cap.callers[cap.last]

\* The last call is over.
CapReturned == CapLast.pc = "idle" /\ CapLast.result # None

\* The last call was made on a slot whose recorded state forbids it.
CapWrongState ==
    /\ CapLast.n \in 1..NumSlots
    /\ \/ CapLast.op = "open" /\ CapLast.pre[CapLast.n]
       \/ CapLast.op = "close" /\ ~CapLast.pre[CapLast.n]

\* For each slot the successful open and close calls alternate, starting
\* with open.
CapAlternate ==
    \A s \in 1..NumSlots :
        \A i \in 1..Len(cap.done[s]) :
            cap.done[s][i] = IF i % 2 = 1 THEN "open" ELSE "close"

\* What the last call did, for a call during which no other call ran: a
\* call made while the device reports RUNNING raises RuntimeError without
\* changing is_open; a call that raises RuntimeError has sent no command
\* and changed nothing; is_open[n-1] changes only after the command was
\* sent and the device was then seen not RUNNING, and no other slot changes.
CapLastCall ==
    /\ (CapReturned /\ ~CapLast.sent /\ CapLast.state = RUNNING) =>
          /\ CapLast.result = "RuntimeError"
          /\ is_open = CapLast.pre
    /\ (CapReturned /\ CapLast.result = "RuntimeError") =>
          /\ ~CapLast.sent
          /\ is_open = CapLast.pre
    /\ is_open # CapLast.pre =>
          /\ CapLast.sent
          /\ CapLast.stopped
          /\ CapLast.result = "ok"
          /\ is_open = [CapLast.pre EXCEPT ![CapLast.n] = (CapLast.op = "open")]
    /\ CapLast.pc # "idle" => is_open = CapLast.pre

\* As C24 states it: open on a slot recorded as open and close on a slot
\* recorded as closed raise RuntimeError without sending a command or
\* changing is_open.
CapRefusedAsStated ==
    (CapReturned /\ CapWrongState) =>
        /\ CapLast.result = "RuntimeError"
        /\ ~CapLast.sent
        /\ is_open = CapLast.pre

\* The same with the first get_state() of the call taken into account: the
\* call raises RuntimeError when that get_state() returns a state, and ends
\* with the exception of the request when the request fails; in both cases
\* no command is sent and is_open is unchanged.
CapRefused ==
    (CapReturned /\ CapWrongState) =>
        /\ CapLast.state \in {RUNNING, STOPPED} => CapLast.result = "RuntimeError"
        /\ CapLast.state = "Exception" => CapLast.result = "Exception"
        /\ ~CapLast.sent
        /\ is_open = CapLast.pre

\* C24 as stated: for each slot the successful open and close calls
\* alternate, starting with open, whatever the callers do; a call on a slot
\* in the wrong recorded state raises RuntimeError, and each call does what
\* CapLastCall says.
C24_Original ==
    /\ CapAlternate
    /\ ~cap.overlapped => (CapRefusedAsStated /\ CapLastCall)

\* C24 amended: as long as the calls on the CapDispenser follow one another
\* (none has begun while another was in progress), the successful open and
\* close calls of each slot alternate, starting with open; a call on a slot
\* in the wrong recorded state raises RuntimeError when its first
\* get_state() returns a state and ends with the exception of the request
\* when the request fails, without a command sent or is_open changed; and
\* each call does what CapLastCall says.
C24_OpenCloseAlternate ==
    ~cap.overlapped => (CapAlternate /\ CapRefused /\ CapLastCall)

\* C24 witness: slot 1 was opened and closed, and a second close of it was
\* refused with nothing sent.
C24_Witness ==
    /\ ~cap.overlapped
    /\ CapReturned
    /\ cap.done[1] = <<"open", "close">>
    /\ CapLast.op = "close"
    /\ CapLast.n = 1
    /\ CapLast.state = STOPPED
    /\ CapLast.result = "RuntimeError"
    /\ ~CapLast.sent
    /\ ~is_open[1]

====
